---- MODULE Spec2Model ----
(***************************************************************************)
(* A model of github.com/gmelum/callback: the dispatcher (Callback), its   *)
(* round-robin router, and the per-endpoint Worker with its failure        *)
(* window and blocked-until deadline.                                      *)
(*                                                                         *)
(* Time is counted in seconds; the zero time.Time{} is 0 and the clock     *)
(* starts at 1, so every reading of the clock is after the zero time.      *)
(* A worker is named by its position in `workers`, the sequence of every   *)
(* worker NewWorker has ever built; endPoints holds such names.            *)
(***************************************************************************)
EXTENDS Integers, Sequences, FiniteSets, TLC

VARIABLES
    endPoints,        \* Callback.endPoints: sequence of worker names
    workers,          \* every Worker built so far, by name
    roundRobinIndex,  \* Callback.roundRobinIndex (atomic.Int32)
    deliveryMode,     \* Callback.deliveryMode
    returnChannel,    \* Callback.returnChannel: envelopes not yet consumed
    now,              \* the clock read by time.Now()
    emitted,          \* number of Emit calls made so far
    last,             \* the last operation: what was called and how it ended
    consumer,         \* Callback.callback and the goroutine of Callback.handler
    callers,          \* the goroutines that are inside Callback.roundRobin
    options,          \* the Options value given to New / defaultOptions
    hist              \* history: what was dequeued, sent and delivered so far

vars == <<endPoints, workers, roundRobinIndex, deliveryMode, returnChannel,
          now, emitted, last, consumer, callers, options, hist>>

\* what the operations of a single caller on a fixed callback leave alone
extra == <<consumer, callers, options, hist>>

----------------------------------------------------------------------------
(* Bounds of the model *)

MaxEmits == 2
MaxTime == 2
MaxSyncLen == 2
MaxWorkers == 3
MaxMemberEmits == 1
MaxWrapEmits == 6
MaxBreakerEmits == 4
MaxBreakerTime == 4
MaxIncs == 4
MaxIncTime == 6
MaxLiveEmits == 3
MaxPipeEmits == 3
MaxApplies == 2
MaxCalls == 6
MaxRaceCalls == 1
MaxQueueCalls == 102
MaxModeEmits == 2

(* Program constants *)

QueueCap == 100
ReturnCap == 100
MaxInt32 == 2147483647
DefaultRetryLimit == 5
DefaultRetryTimeout == 5
DefaultRetryWindow == 3

(* The configuration New copies from its options (any values may be given;
   the model fixes one configuration whose window is shorter than its
   timeout, as with the defaults) *)

retryLimit == 1
retryTimeout == 2
retryWindow == 1

MinInt32 == (-MaxInt32) - 1

Hosts == {"a", "b", "c"}

RoundRobin == "round_robin"
Broadcast == "broadcast"

ZeroTime == 0

----------------------------------------------------------------------------
(* Helpers for Go's arithmetic and time *)

\* atomic.Int32.Add(1): two's complement wrap-around at the 32-bit maximum.
Add32(x) == IF x = MaxInt32 THEN MinInt32 ELSE x + 1

\* Go's % truncates toward zero: the remainder has the sign of the dividend.
GoRem(a, n) == IF a >= 0 \/ a % n = 0 THEN a % n ELSE (a % n) - n

\* time.Time.After and time.Time.Before
After(t, u) == t > u
Before(t, u) == t < u

\* the router's availability check
Available(w) == After(now, w.blockedUntil)

----------------------------------------------------------------------------
(* Worker: construction and Close *)

\* NewWorker: an empty queue, an empty failure window, the zero blockedUntil.
\* The stop channel is not assigned, so it keeps Go's zero value, a nil channel.
\* The handler goroutine is started waiting at its select: `loops` counts the
\* goroutines of this worker that are inside the for-select loop of handler,
\* pc, data and out are the position, the message in hand and the result of
\* the one that is.
NewWorker(point) ==
    [point           |-> point,
     messageQueue    |-> <<>>,
     errorTimestamps |-> <<>>,
     blockedUntil    |-> ZeroTime,
     stop            |-> "nil",
     pc              |-> "wait",
     data            |-> 0,
     out             |-> "none",
     loops           |-> 1]

\* a queue that takes any number of messages
HasRoomAlways(w) == TRUE

\* a send to Worker.messageQueue, a channel of capacity 100, can proceed; the
\* sender blocks while it cannot
HasRoom(w) == Len(w.messageQueue) < QueueCap

\* Worker.Close: close(w.stop).  Go panics on closing a nil channel and on
\* closing a channel that is already closed.
Close(w) ==
    IF w.stop = "open"
    THEN [worker |-> [w EXCEPT !.stop = "closed"], res |-> "ok"]
    ELSE [worker |-> w, res |-> "panic"]

\* a panic that would leave the faulted goroutine inside its loop
UnwoundStillLooping(w) == [w EXCEPT !.pc = "send", !.data = 0, !.out = "panic"]

\* a recovery that puts the message in hand back at the end of the queue
UnwoundRequeue(w) ==
    [w EXCEPT !.pc = "send", !.data = 0, !.out = "panic", !.loops = @ - 1,
              !.messageQueue = Append(@, w.data)]

\* a recovery that sends no envelope and goes back to the select
UnwoundSilent(w) == [w EXCEPT !.pc = "wait", !.data = 0, !.out = "none"]

\* Worker.handler when handlerRequest panics: the panic unwinds the for loop,
\* the message in hand is gone, and the deferred function has recovered and
\* holds the panic envelope.
Unwound(w) ==
    [w EXCEPT !.pc = "send", !.data = 0, !.out = "panic", !.loops = @ - 1]

\* a deferred function that sends the panic envelope and starts no handler
SentNoRestart(w) ==
    [w EXCEPT !.pc = IF w.out = "panic" THEN "stopped" ELSE "wait", !.out = "none"]

\* Worker.handler once its envelope is on the return channel: the loop is
\* back at the select or, after a panic, the deferred function has started a
\* new handler (go w.handler()) and the faulted goroutine returns.
Sent(w) ==
    [w EXCEPT !.pc = "wait", !.out = "none",
              !.loops = IF w.out = "panic" THEN @ + 1 ELSE @]

----------------------------------------------------------------------------
(* Callback: the endpoint sequence.  The operations below compute on a     *)
(* record [endPoints, workers, res]; res is "ok" on a normal return and    *)
(* "panic" when the call panics (the deferred mu.Unlock still runs).       *)

\* the i-th element removed: append(s[:i], s[i+1:]...), with i counted from 1
RemoveAt(s, i) == SubSeq(s, 1, i - 1) \o SubSeq(s, i + 1, Len(s))

\* Callback.findWorkerIndex: the first position (from 0) whose worker has this
\* point, -1 when there is none.
findWorkerIndex(eps, ws, endPoint) ==
    LET hits == {i \in 1..Len(eps) : ws[eps[i]].point = endPoint}
    IN IF hits = {} THEN -1
       ELSE (CHOOSE i \in hits : \A j \in hits : i <= j) - 1

\* AddEndpoint without its check for an existing worker
AddEndpointUnchecked(st, host) ==
    [st EXCEPT !.workers = Append(st.workers, NewWorker(host)),
               !.endPoints = Append(st.endPoints, Len(st.workers) + 1)]

\* Callback.AddEndpoint
AddEndpoint(st, host) ==
    IF findWorkerIndex(st.endPoints, st.workers, host) # -1
    THEN st
    ELSE [st EXCEPT !.workers = Append(st.workers, NewWorker(host)),
                    !.endPoints = Append(st.endPoints, Len(st.workers) + 1)]

\* Callback.DeleteEndpoint
DeleteEndpoint(st, host) ==
    LET index == findWorkerIndex(st.endPoints, st.workers, host)
    IN IF index = -1 THEN st
       ELSE LET name == st.endPoints[index + 1]
                c == Close(st.workers[name])
            IN IF c.res = "panic"
               THEN [st EXCEPT !.res = "panic"]
               ELSE [st EXCEPT !.workers = [st.workers EXCEPT ![name] = c.worker],
                               !.endPoints = RemoveAt(st.endPoints, index + 1)]

\* SyncEndPoint, first loop: from the last position down to the first, close
\* and remove every worker whose point is not among the new hosts.
RECURSIVE syncRemove(_, _, _)
syncRemove(st, newHosts, i) ==
    IF i < 1 THEN st
    ELSE LET name == st.endPoints[i]
         IN IF st.workers[name].point \in newHosts
            THEN syncRemove(st, newHosts, i - 1)
            ELSE LET c == Close(st.workers[name])
                 IN IF c.res = "panic"
                    THEN [st EXCEPT !.res = "panic"]
                    ELSE syncRemove(
                           [st EXCEPT !.workers = [st.workers EXCEPT ![name] = c.worker],
                                      !.endPoints = RemoveAt(st.endPoints, i)],
                           newHosts, i - 1)

\* the second loop of SyncEndPoint without its check for an existing worker
RECURSIVE syncAddUnchecked(_, _, _)
syncAddUnchecked(st, hosts, j) ==
    IF j > Len(hosts) THEN st
    ELSE syncAddUnchecked(
             [st EXCEPT !.workers = Append(st.workers, NewWorker(hosts[j])),
                        !.endPoints = Append(st.endPoints, Len(st.workers) + 1)],
             hosts, j + 1)

\* SyncEndPoint, second loop: in the order of hosts, append a new worker for
\* every host that has none.
RECURSIVE syncAdd(_, _, _)
syncAdd(st, hosts, j) ==
    IF j > Len(hosts) THEN st
    ELSE IF findWorkerIndex(st.endPoints, st.workers, hosts[j]) = -1
         THEN syncAdd([st EXCEPT !.workers = Append(st.workers, NewWorker(hosts[j])),
                                 !.endPoints = Append(st.endPoints, Len(st.workers) + 1)],
                      hosts, j + 1)
         ELSE syncAdd(st, hosts, j + 1)

\* Callback.SyncEndPoint
SyncEndPoint(st, hosts) ==
    LET newHosts == {hosts[k] : k \in 1..Len(hosts)}
        removed == syncRemove(st, newHosts, Len(st.endPoints))
    IN IF removed.res = "panic" THEN removed
       ELSE syncAdd(removed, hosts, 1)

\* the lists of hosts a caller may pass (repetitions included)
HostLists == UNION {[1..n -> Hosts] : n \in 0..MaxSyncLen}

Here == [endPoints |-> endPoints, workers |-> workers, res |-> "ok"]

Points(eps, ws) == [i \in 1..Len(eps) |-> ws[eps[i]].point]

----------------------------------------------------------------------------
(* Worker: the failure window and the blocked-until deadline *)

\* Inc setting the deadline on every failure above the limit, blocked or not
IncWorkerAlwaysBlocks(w, t) ==
    LET windowStart == t - retryWindow
        filteredErrors == SelectSeq(w.errorTimestamps, LAMBDA ts : After(ts, windowStart))
        stamps == Append(filteredErrors, t)
    IN IF Len(stamps) > retryLimit
       THEN [w EXCEPT !.errorTimestamps = stamps, !.blockedUntil = t + retryTimeout]
       ELSE [w EXCEPT !.errorTimestamps = stamps]

\* Inc that records the failure without dropping the old timestamps
IncWorkerKeepsAll(w, t) ==
    LET stamps == Append(w.errorTimestamps, t)
    IN IF Len(stamps) > retryLimit
       THEN [w EXCEPT !.errorTimestamps = stamps,
                      !.blockedUntil = IF After(t, w.blockedUntil)
                                       THEN t + retryTimeout
                                       ELSE w.blockedUntil]
       ELSE [w EXCEPT !.errorTimestamps = stamps]

\* Inc that also keeps a timestamp exactly retryWindow old
IncWorkerInclusive(w, t) ==
    LET windowStart == t - retryWindow
        filteredErrors == SelectSeq(w.errorTimestamps,
                                    LAMBDA ts : ~Before(ts, windowStart))
        stamps == Append(filteredErrors, t)
    IN IF Len(stamps) > retryLimit
       THEN [w EXCEPT !.errorTimestamps = stamps,
                      !.blockedUntil = IF After(t, w.blockedUntil)
                                       THEN t + retryTimeout
                                       ELSE w.blockedUntil]
       ELSE [w EXCEPT !.errorTimestamps = stamps]

\* Worker.Inc at time t: drop the timestamps that are not after t - retryWindow,
\* append t, and when more than retryLimit remain and t is after blockedUntil,
\* set blockedUntil to t + retryTimeout.
IncWorker(w, t) ==
    LET windowStart == t - retryWindow
        filteredErrors == SelectSeq(w.errorTimestamps, LAMBDA ts : After(ts, windowStart))
        stamps == Append(filteredErrors, t)
    IN IF Len(stamps) > retryLimit
       THEN [w EXCEPT !.errorTimestamps = stamps,
                      !.blockedUntil = IF After(t, w.blockedUntil)
                                       THEN t + retryTimeout
                                       ELSE w.blockedUntil]
       ELSE [w EXCEPT !.errorTimestamps = stamps]

\* the value Worker.Inc returns at time t
IncReturn(w, t) ==
    LET after == IncWorker(w, t)
    IN IF Len(after.errorTimestamps) > retryLimit THEN TRUE
       ELSE Before(t, after.blockedUntil)

\* Reset clearing the failure window only
ResetWorkerWindowOnly(w) == [w EXCEPT !.errorTimestamps = <<>>]

\* Worker.Reset
ResetWorker(w) == [w EXCEPT !.errorTimestamps = <<>>, !.blockedUntil = ZeroTime]

\* sendReturn marking every envelope a success
sendReturnSuccess(w, kind) ==
    [Point    |-> w.point,
     Success  |-> TRUE,
     Response |-> IF kind = "response" THEN "response" ELSE "nil",
     Error    |-> IF kind = "response" THEN "nil" ELSE kind]

\* Worker.sendReturn: the envelope for a result
sendReturn(w, kind) ==
    [Point    |-> w.point,
     Success  |-> (kind = "response"),
     Response |-> IF kind = "response" THEN "response" ELSE "nil",
     Error    |-> IF kind = "response" THEN "nil" ELSE kind]

----------------------------------------------------------------------------
(* Router *)

\* Callback.roundRobin, run by one caller with the clock at `now`: the loop
\* from iteration i with the cursor at idx.  Add(1)-1 is the cursor's value
\* before the increment (both wrap in 32 bits).  A negative index panics.
\* The result names the worker that gets the payload (target, 0 for none) and
\* the cursor the call leaves behind.
RECURSIVE roundRobinFrom(_, _)
roundRobinFrom(i, idx) ==
    IF i >= Len(endPoints)
    THEN [res |-> "error", target |-> 0, index |-> idx]
    ELSE LET index == GoRem(idx, Len(endPoints))
             next == Add32(idx)
         IN IF index < 0
            THEN [res |-> "panic", target |-> 0, index |-> next]
            ELSE IF ~Available(workers[endPoints[index + 1]])
                 THEN roundRobinFrom(i + 1, next)
                 ELSE [res |-> "ok", target |-> endPoints[index + 1], index |-> next]

roundRobin == roundRobinFrom(0, roundRobinIndex)

----------------------------------------------------------------------------
(* The state after New, and the operations as actions *)

\* The record of the last operation: its name, the hosts it was given, how it
\* ended (res), what roundRobin returned inside an Emit (rr) and the worker it
\* concerned (target).  `again` marks a structural mutation that repeats the
\* operation just before it, with the same hosts.
Done(op, hosts, res, rr, target) ==
    [op |-> op, hosts |-> hosts, res |-> res, rr |-> rr, target |-> target,
     again |-> /\ op \in {"AddEndpoint", "DeleteEndpoint", "SyncEndPoint"}
               /\ last.op = op
               /\ last.hosts = hosts]

\* the goroutines that may call into the callback concurrently
Callers == {"A", "B"}

\* a goroutine that is not inside roundRobin: pc is its position, data the
\* payload, i the loop counter, index the position computed from the cursor,
\* eps the sequence as it was when the loop condition read its length, seen
\* the positions examined in this call and res what the last call returned
Resting ==
    [pc |-> "idle", data |-> 0, i |-> 0, index |-> 0, seen |-> {}, eps |-> <<>>,
     res |-> "none"]

\* no envelope in hand
NoData == [Point |-> "", Success |-> FALSE, Response |-> "nil", Error |-> "nil"]

\* New leaves Callback.callback nil and starts one goroutine of
\* Callback.handler, which waits on the return channel.
NewConsumer == [callback |-> "nil", pc |-> "receive", data |-> NoData, loops |-> 1]

\* nothing has happened yet
NoHistory ==
    [inflight |-> <<>>, dequeued |-> <<>>, sunk |-> <<>>, taken |-> 0,
     calls |-> <<>>, dropped |-> {},
     failures |-> 0, previous |-> ZeroTime, spaced |-> TRUE,
     input |-> <<>>, applied |-> 0, times |-> <<>>]

\* New copies what it needs from the Options value and does not keep it
NoOptions == <<>>

\* A dispatcher built by New from the options and whose cursor has reached
\* `cursor`, with every queue drained and every breaker reset.
Serving(opt, cursor) ==
    LET st == SyncEndPoint([endPoints |-> <<>>, workers |-> <<>>, res |-> "ok"],
                           opt.EndPoints)
    IN /\ endPoints = st.endPoints
       /\ workers = st.workers
       /\ deliveryMode = opt.DeliveryMode
       /\ roundRobinIndex = cursor
       /\ returnChannel = <<>>
       /\ now = 1
       /\ emitted = 0
       /\ last = [op |-> "New", hosts |-> opt.EndPoints, res |-> "ok", rr |-> "none",
                  target |-> 0, again |-> FALSE]
       /\ consumer = NewConsumer
       /\ callers = [c \in Callers |-> Resting]
       /\ options = NoOptions
       /\ hist = NoHistory

\* New: the options' delivery mode, an empty sequence synchronised with the
\* options' endpoints, the cursor at 0, an empty result channel.
New(opt) == Serving(opt, 0)

Init ==
    \E hosts \in HostLists, mode \in {RoundRobin, Broadcast} :
        New([EndPoints |-> hosts, DeliveryMode |-> mode])

\* a structural mutation that ended in st
Mutated(op, hosts, st) ==
    /\ Len(st.workers) <= MaxWorkers
    /\ endPoints' = st.endPoints
    /\ workers' = st.workers
    /\ last' = Done(op, hosts, st.res, "none", 0)
    /\ UNCHANGED <<roundRobinIndex, deliveryMode, returnChannel, now, emitted>>
    /\ UNCHANGED extra

AddEndpointCall ==
    \E host \in Hosts : Mutated("AddEndpoint", <<host>>, AddEndpoint(Here, host))

DeleteEndpointCall ==
    \E host \in Hosts : Mutated("DeleteEndpoint", <<host>>, DeleteEndpoint(Here, host))

SyncEndPointCall ==
    \E hosts \in HostLists : Mutated("SyncEndPoint", hosts, SyncEndPoint(Here, hosts))

\* Emit running roundRobin whatever the delivery mode
EmitRoutesAlways(max) ==
    /\ emitted < max
    /\ emitted' = emitted + 1
    /\ LET r == roundRobin
       IN /\ roundRobinIndex' = r.index
          /\ IF r.res = "ok"
             THEN /\ HasRoom(workers[r.target])
                  /\ workers' = [workers EXCEPT ![r.target].messageQueue =
                                     Append(@, emitted + 1)]
             ELSE UNCHANGED workers
          /\ last' = Done("Emit", <<>>, IF r.res = "panic" THEN "panic" ELSE "nil",
                          r.res, r.target)
    /\ UNCHANGED <<endPoints, deliveryMode, returnChannel, now>>
    /\ UNCHANGED extra

\* Callback.Emit by a single caller, the payload being the call's number.
\* In round-robin mode it runs roundRobin and drops what roundRobin returns;
\* in broadcast mode it does nothing.  Sending to a full queue blocks, so the
\* call completes only when the chosen queue has room.
EmitUpTo(max) ==
    /\ emitted < max
    /\ emitted' = emitted + 1
    /\ IF deliveryMode = RoundRobin
       THEN LET r == roundRobin
            IN /\ roundRobinIndex' = r.index
               /\ IF r.res = "ok"
                  THEN /\ HasRoom(workers[r.target])
                       /\ workers' = [workers EXCEPT ![r.target].messageQueue =
                                          Append(@, emitted + 1)]
                  ELSE UNCHANGED workers
               /\ last' = Done("Emit", <<>>, IF r.res = "panic" THEN "panic" ELSE "nil",
                               r.res, r.target)
       ELSE /\ UNCHANGED <<roundRobinIndex, workers>>
            /\ last' = Done("Emit", <<>>, "nil", "none", 0)
    /\ UNCHANGED <<endPoints, deliveryMode, returnChannel, now>>
    /\ UNCHANGED extra

Emit == EmitUpTo(MaxEmits)

EmitMember == EmitUpTo(MaxMemberEmits)

\* Worker.handler, the select: take the next message from the queue.  (The
\* stop case is ready only once the stop channel is closed.)
Receive(w) ==
    /\ workers[w].pc = "wait"
    /\ workers[w].messageQueue # <<>>
    /\ workers' = [workers EXCEPT ![w].pc = "request",
                                  ![w].data = Head(workers[w].messageQueue),
                                  ![w].messageQueue = Tail(@)]
    /\ last' = Done("Receive", <<>>, "ok", "none", w)
    /\ UNCHANGED <<endPoints, roundRobinIndex, deliveryMode, returnChannel,
                   now, emitted>>

HandlerReceive == \E w \in 1..Len(workers) : Receive(w) /\ UNCHANGED extra

Stop(w) ==
    /\ workers[w].pc = "wait"
    /\ workers[w].stop = "closed"
    /\ workers' = [workers EXCEPT ![w].pc = "stopped"]
    /\ last' = Done("Stop", <<>>, "ok", "none", w)
    /\ UNCHANGED <<endPoints, roundRobinIndex, deliveryMode, returnChannel,
                   now, emitted>>

HandlerStop == \E w \in 1..Len(workers) : Stop(w) /\ UNCHANGED extra

\* Worker.handler, handlerRequest returns an error: Inc, then the failure
\* envelope is ready to be sent.
Failure(w) ==
    /\ workers[w].pc = "request"
    /\ workers' = [workers EXCEPT ![w] =
           [IncWorker(workers[w], now) EXCEPT !.pc = "send", !.data = 0,
                                              !.out = "error"]]
    /\ last' = Done("Failure", <<>>, "ok", "none", w)
    /\ UNCHANGED <<endPoints, roundRobinIndex, deliveryMode, returnChannel,
                   now, emitted>>

HandlerFailure == \E w \in 1..Len(workers) : Failure(w) /\ UNCHANGED extra

\* Worker.handler, handlerRequest returns a response: Reset, then the success
\* envelope is ready to be sent.
Success(w) ==
    /\ workers[w].pc = "request"
    /\ workers' = [workers EXCEPT ![w] =
           [ResetWorker(workers[w]) EXCEPT !.pc = "send", !.data = 0,
                                           !.out = "response"]]
    /\ last' = Done("Success", <<>>, "ok", "none", w)
    /\ UNCHANGED <<endPoints, roundRobinIndex, deliveryMode, returnChannel,
                   now, emitted>>

HandlerSuccess == \E w \in 1..Len(workers) : Success(w) /\ UNCHANGED extra

\* Worker.handler, handlerRequest panics: the deferred function recovers and
\* has the panic envelope to send.
Panicked(w) ==
    /\ workers[w].pc = "request"
    /\ workers' = [workers EXCEPT ![w] = Unwound(workers[w])]
    /\ last' = Done("Panic", <<>>, "ok", "none", w)
    /\ UNCHANGED <<endPoints, roundRobinIndex, deliveryMode, returnChannel,
                   now, emitted>>

HandlerPanic == \E w \in 1..Len(workers) : Panicked(w) /\ UNCHANGED extra

\* Worker.handler sends the envelope to the return channel (blocking while it
\* is full) and is back at the select: the loop continues or, after a panic,
\* the handler started by the deferred function takes over.
Send(w) ==
    /\ workers[w].pc = "send"
    /\ Len(returnChannel) < ReturnCap
    /\ returnChannel' = Append(returnChannel, sendReturn(workers[w], workers[w].out))
    /\ workers' = [workers EXCEPT ![w] = Sent(workers[w])]
    /\ last' = Done("Send", <<>>, "ok", "none", w)
    /\ UNCHANGED <<endPoints, roundRobinIndex, deliveryMode, now, emitted>>

HandlerSend == \E w \in 1..Len(workers) : Send(w) /\ UNCHANGED extra

\* Callback.handler: take the next envelope from the return channel and hand
\* it to the callback.
CallbackHandler ==
    /\ returnChannel # <<>>
    /\ returnChannel' = Tail(returnChannel)
    /\ last' = Done("Callback", <<>>, "ok", "none", 0)
    /\ UNCHANGED <<endPoints, workers, roundRobinIndex, deliveryMode, now, emitted>>
    /\ UNCHANGED extra

\* the clock advances
TickUpTo(max) ==
    /\ now < max
    /\ now' = now + 1
    /\ last' = Done("Tick", <<>>, "ok", "none", 0)
    /\ UNCHANGED <<endPoints, workers, roundRobinIndex, deliveryMode, returnChannel,
                   emitted>>
    /\ UNCHANGED extra

Tick == TickUpTo(MaxTime)

Next ==
    \/ AddEndpointCall
    \/ DeleteEndpointCall
    \/ SyncEndPointCall
    \/ Emit
    \/ HandlerReceive
    \/ HandlerFailure
    \/ HandlerSuccess
    \/ HandlerPanic
    \/ HandlerSend
    \/ CallbackHandler
    \/ Tick

\* the whole dispatcher
Spec == Init /\ [][Next]_vars

----------------------------------------------------------------------------
(* The endpoint sequence under its three mutations, with a caller emitting *)
(* and the workers taking and failing or answering messages, so that the   *)
(* queues and failure windows the mutations must leave alone are not empty *)

NextMembership ==
    \/ AddEndpointCall
    \/ DeleteEndpointCall
    \/ SyncEndPointCall
    \/ EmitMember
    \/ HandlerReceive
    \/ HandlerFailure
    \/ HandlerSuccess
    \/ HandlerSend
    \/ CallbackHandler

SpecMembership == Init /\ [][NextMembership]_vars

----------------------------------------------------------------------------
(* One dispatcher with its endpoints fixed at construction: a caller emits,*)
(* the workers process with every outcome of the transport, the consumer   *)
(* drains the return channel and the clock advances.                       *)

InitWorker ==
    \E hosts \in {<<"a">>, <<"a", "b">>} :
        New([EndPoints |-> hosts, DeliveryMode |-> RoundRobin])

EmitBreaker == EmitUpTo(MaxBreakerEmits)

TickBreaker == TickUpTo(MaxBreakerTime)

NextWorker ==
    \/ EmitBreaker
    \/ HandlerReceive
    \/ HandlerFailure
    \/ HandlerSuccess
    \/ HandlerPanic
    \/ HandlerSend
    \/ CallbackHandler
    \/ TickBreaker

SpecWorker == InitWorker /\ [][NextWorker]_vars

----------------------------------------------------------------------------
(* A dispatcher of two endpoints that has been serving for long: its       *)
(* cursor, incremented once per candidate examined, is a few steps from    *)
(* the largest 32-bit value.                                               *)

InitWrap ==
    Serving([EndPoints |-> <<"a", "b">>, DeliveryMode |-> RoundRobin], MaxInt32 - 3)

EmitWrap == EmitUpTo(MaxWrapEmits)

NextWrap ==
    \/ EmitWrap
    \/ HandlerReceive
    \/ HandlerFailure
    \/ HandlerSuccess
    \/ HandlerSend
    \/ CallbackHandler

SpecWrap == InitWrap /\ [][NextWrap]_vars

----------------------------------------------------------------------------
(* One worker whose exported methods Inc and Reset are called directly as  *)
(* the clock advances.  The history keeps the number of Inc calls, their   *)
(* times, the time of the previous one, and whether every Inc so far came  *)
(* more than retryWindow after the one before it.                          *)

InitInc == New([EndPoints |-> <<"a">>, DeliveryMode |-> RoundRobin])

\* w.Inc()
IncCall ==
    /\ hist.failures < MaxIncs
    /\ workers' = [workers EXCEPT ![1] = IncWorker(workers[1], now)]
    /\ last' = Done("Inc", <<>>, IF IncReturn(workers[1], now) THEN "true" ELSE "false",
                    "none", 1)
    /\ hist' = [hist EXCEPT !.failures = @ + 1,
                            !.times = Append(@, now),
                            !.previous = now,
                            !.spaced = /\ hist.spaced
                                       /\ \/ hist.failures = 0
                                          \/ now - hist.previous > retryWindow]
    /\ UNCHANGED <<endPoints, roundRobinIndex, deliveryMode, returnChannel, now,
                   emitted, consumer, callers, options>>

\* w.Reset()
ResetCall ==
    /\ workers' = [workers EXCEPT ![1] = ResetWorker(workers[1])]
    /\ last' = Done("Reset", <<>>, "ok", "none", 1)
    /\ UNCHANGED <<endPoints, roundRobinIndex, deliveryMode, returnChannel, now,
                   emitted>>
    /\ UNCHANGED extra

TickInc == TickUpTo(MaxIncTime)

NextInc ==
    \/ IncCall
    \/ ResetCall
    \/ TickInc

SpecInc == InitInc /\ [][NextInc]_vars

----------------------------------------------------------------------------
(* A dispatcher of one or two endpoints whose goroutines are scheduled     *)
(* fairly: a handler that can take a message does, every transport call    *)
(* ends (with a response, an error or a panic), an envelope that can be    *)
(* sent is sent, and the consumer drains the return channel.               *)

EmitLive == EmitUpTo(MaxLiveEmits)

NextLive ==
    \/ EmitLive
    \/ HandlerReceive
    \/ HandlerFailure
    \/ HandlerSuccess
    \/ HandlerPanic
    \/ HandlerSend
    \/ CallbackHandler

SpecLive ==
    /\ InitWorker
    /\ [][NextLive]_vars
    /\ WF_vars(HandlerReceive)
    /\ WF_vars(HandlerFailure \/ HandlerSuccess \/ HandlerPanic)
    /\ WF_vars(HandlerSend)
    /\ WF_vars(CallbackHandler)

----------------------------------------------------------------------------
(* The whole path of a message: Emit, the worker, the return channel, the  *)
(* consumer goroutine and the callback the application installs with On.   *)
(* A callback is a function of the envelope it is given: it returns or it  *)
(* panics.  Four callbacks stand for the behaviours: "sound" never panics, *)
(* "strict" panics on an envelope without a response (as one that reads    *)
(* data.Response.Data does), "picky" panics on a success envelope, and     *)
(* "faulty" panics on every envelope.                                      *)
(* Callback.callback is read and written without synchronisation; a write  *)
(* by On is a single word and is seen by the consumer from some moment on, *)
(* which is the moment OnCall happens here.                                *)
(* The history numbers the envelopes in the order they are put on the      *)
(* return channel; a Go channel is first-in first-out, so the n-th         *)
(* envelope taken is the n-th put.                                         *)

Callbacks == {"sound", "strict", "picky", "faulty"}

Faults(clb, data) ==
    \/ clb = "faulty"
    \/ clb = "strict" /\ data.Response = "nil"
    \/ clb = "picky" /\ data.Success

\* the envelope the deferred function of Callback.handler builds
GlobalPanic ==
    [Point |-> "", Success |-> FALSE, Response |-> "nil", Error |-> "global panic"]

\* a callback panic that would leave the faulted goroutine reading the channel
FaultedStillLooping(cons) == [cons EXCEPT !.pc = "recover", !.data = GlobalPanic]

\* Callback.handler when the callback panics: the panic unwinds the range
\* loop, and the deferred function has recovered and built the global panic
\* envelope
Faulted(cons) ==
    [cons EXCEPT !.pc = "recover", !.data = GlobalPanic, !.loops = @ - 1]

\* the process has not been ended by a panic no goroutine recovered
Alive == consumer.pc # "crashed"

\* Callback.On, called once by the application
OnCall ==
    \E clb \in Callbacks :
        /\ Alive
        /\ consumer.callback = "nil"
        /\ consumer' = [consumer EXCEPT !.callback = clb]
        /\ last' = Done("On", <<>>, "ok", "none", 0)
        /\ UNCHANGED <<endPoints, workers, roundRobinIndex, deliveryMode,
                       returnChannel, now, emitted, callers, options, hist>>

EmitPipe == Alive /\ EmitUpTo(MaxPipeEmits)

\* the worker takes a message: the history notes which one it has in hand
PipeReceive ==
    \E w \in 1..Len(workers) :
        /\ Alive
        /\ Receive(w)
        /\ hist' = [hist EXCEPT
               !.inflight = (w :> Head(workers[w].messageQueue)) @@ @,
               !.dequeued = Append(@, <<w, Head(workers[w].messageQueue)>>)]
        /\ UNCHANGED <<consumer, callers, options>>

PipeFailure == Alive /\ HandlerFailure

PipeSuccess == Alive /\ HandlerSuccess

PipePanic == Alive /\ HandlerPanic

\* the worker sends its envelope: the history notes the worker, the message
\* the envelope is for and the kind of result
PipeSend ==
    \E w \in 1..Len(workers) :
        /\ Alive
        /\ Send(w)
        /\ hist' = [hist EXCEPT
               !.sunk = Append(@, <<w, hist.inflight[w], workers[w].out>>)]
        /\ UNCHANGED <<consumer, callers, options>>

\* Callback.handler, the range loop: take the next envelope and, when a
\* callback is installed, call it with the envelope; with no callback the
\* envelope is let go.
ConsumerTake ==
    /\ consumer.pc = "receive"
    /\ returnChannel # <<>>
    /\ returnChannel' = Tail(returnChannel)
    /\ IF consumer.callback = "nil"
       THEN /\ UNCHANGED consumer
            /\ hist' = [hist EXCEPT !.taken = @ + 1,
                                    !.dropped = @ \cup {hist.taken + 1}]
       ELSE /\ consumer' = [consumer EXCEPT !.pc = "call",
                                            !.data = Head(returnChannel)]
            /\ hist' = [hist EXCEPT !.taken = @ + 1,
                                    !.calls = Append(@, hist.taken + 1)]
    /\ last' = Done("Take", <<>>, "ok", "none", 0)
    /\ UNCHANGED <<endPoints, workers, roundRobinIndex, deliveryMode, now,
                   emitted, callers, options>>

\* the callback returns: the loop goes on to the next envelope
ConsumerReturn ==
    /\ consumer.pc = "call"
    /\ ~Faults(consumer.callback, consumer.data)
    /\ consumer' = [consumer EXCEPT !.pc = "receive", !.data = NoData]
    /\ last' = Done("Return", <<>>, "ok", "none", 0)
    /\ UNCHANGED <<endPoints, workers, roundRobinIndex, deliveryMode,
                   returnChannel, now, emitted, callers, options, hist>>

\* the callback panics: the panic unwinds the range loop and the deferred
\* function recovers it and, Callback.callback not being nil, calls the
\* callback with the global panic envelope
ConsumerFault ==
    /\ consumer.pc = "call"
    /\ Faults(consumer.callback, consumer.data)
    /\ consumer' = Faulted(consumer)
    /\ last' = Done("Fault", <<>>, "panic", "none", 0)
    /\ UNCHANGED <<endPoints, workers, roundRobinIndex, deliveryMode,
                   returnChannel, now, emitted, callers, options, hist>>

\* the callback returns from the global panic envelope: the deferred function
\* starts a new handler (go c.handler()) and the faulted goroutine ends
ConsumerRestart ==
    /\ consumer.pc = "recover"
    /\ ~Faults(consumer.callback, consumer.data)
    /\ consumer' = [consumer EXCEPT !.pc = "receive", !.data = NoData,
                                    !.loops = @ + 1]
    /\ last' = Done("Restart", <<>>, "ok", "none", 0)
    /\ UNCHANGED <<endPoints, workers, roundRobinIndex, deliveryMode,
                   returnChannel, now, emitted, callers, options, hist>>

\* the callback panics on the global panic envelope: the panic is raised
\* inside the deferred function, after its recover call, so nothing recovers
\* it and the Go runtime ends the process
ConsumerCrash ==
    /\ consumer.pc = "recover"
    /\ Faults(consumer.callback, consumer.data)
    /\ consumer' = [consumer EXCEPT !.pc = "crashed"]
    /\ last' = Done("Crash", <<>>, "panic", "none", 0)
    /\ UNCHANGED <<endPoints, workers, roundRobinIndex, deliveryMode,
                   returnChannel, now, emitted, callers, options, hist>>

NextPipe ==
    \/ OnCall
    \/ EmitPipe
    \/ PipeReceive
    \/ PipeFailure
    \/ PipeSuccess
    \/ PipePanic
    \/ PipeSend
    \/ ConsumerTake
    \/ ConsumerReturn
    \/ ConsumerFault
    \/ ConsumerRestart
    \/ ConsumerCrash

SpecPipe == InitWorker /\ [][NextPipe]_vars

----------------------------------------------------------------------------
(* defaultOptions, applied to an Options value once and again.  Durations  *)
(* are in seconds; "" and 0 are Go's zero values of the fields.  The       *)
(* history keeps the value before the first application.                   *)

REST == "REST"
QUIC == "QUIC"
Repeat == "repeat"
NextMode == "next"

\* defaultOptions with a retry window that is always the default
defaultOptionsFixedWindow(opt) ==
    [Transport    |-> IF opt.Transport = "" THEN REST ELSE opt.Transport,
     DeliveryMode |-> IF opt.DeliveryMode = "" THEN RoundRobin ELSE opt.DeliveryMode,
     RetryMode    |-> IF opt.RetryMode = "" THEN NextMode ELSE opt.RetryMode,
     EndPoints    |-> opt.EndPoints,
     RetryLimit   |-> IF opt.RetryLimit = 0 THEN DefaultRetryLimit ELSE opt.RetryLimit,
     RetryTimeout |-> IF opt.RetryTimeout = 0 THEN DefaultRetryTimeout
                      ELSE opt.RetryTimeout,
     RetryWindow  |-> DefaultRetryWindow]

\* defaultOptions: each field that holds its zero value gets the default; the
\* endpoint list is not looked at.
defaultOptions(opt) ==
    [Transport    |-> IF opt.Transport = "" THEN REST ELSE opt.Transport,
     DeliveryMode |-> IF opt.DeliveryMode = "" THEN RoundRobin ELSE opt.DeliveryMode,
     RetryMode    |-> IF opt.RetryMode = "" THEN NextMode ELSE opt.RetryMode,
     EndPoints    |-> opt.EndPoints,
     RetryLimit   |-> IF opt.RetryLimit = 0 THEN DefaultRetryLimit ELSE opt.RetryLimit,
     RetryTimeout |-> IF opt.RetryTimeout = 0 THEN DefaultRetryTimeout
                      ELSE opt.RetryTimeout,
     RetryWindow  |-> IF opt.RetryWindow = 0 THEN DefaultRetryWindow
                      ELSE opt.RetryWindow]

\* the Options values tried: every field unset, set to its default, or set to
\* another value
OptionValues ==
    [Transport    : {"", REST, QUIC},
     DeliveryMode : {"", RoundRobin, Broadcast},
     RetryMode    : {"", Repeat, NextMode},
     EndPoints    : {<<>>, <<"a">>, <<"b", "a">>},
     RetryLimit   : {0, 2, DefaultRetryLimit, -1},
     RetryTimeout : {0, DefaultRetryTimeout, 7},
     RetryWindow  : {0, 1, DefaultRetryWindow}]

\* an Options value and no dispatcher built from it yet
InitOptions ==
    /\ options \in OptionValues
    /\ hist = [NoHistory EXCEPT !.input = options]
    /\ endPoints = <<>>
    /\ workers = <<>>
    /\ deliveryMode = ""
    /\ roundRobinIndex = 0
    /\ returnChannel = <<>>
    /\ now = 1
    /\ emitted = 0
    /\ last = [op |-> "none", hosts |-> <<>>, res |-> "ok", rr |-> "none",
               target |-> 0, again |-> FALSE]
    /\ consumer = NewConsumer
    /\ callers = [c \in Callers |-> Resting]

\* defaultOptions(opt): the value is changed in place
DefaultOptionsCall ==
    /\ hist.applied < MaxApplies
    /\ options' = defaultOptions(options)
    /\ hist' = [hist EXCEPT !.applied = @ + 1]
    /\ last' = Done("defaultOptions", <<>>, "ok", "none", 0)
    /\ UNCHANGED <<endPoints, workers, roundRobinIndex, deliveryMode,
                   returnChannel, now, emitted, consumer, callers>>

NextOptions == DefaultOptionsCall

SpecOptions == InitOptions /\ [][NextOptions]_vars

----------------------------------------------------------------------------
(* Callback.roundRobin statement by statement, run by several goroutines   *)
(* at once.  roundRobin takes no lock: it reads len(c.endPoints) in the    *)
(* loop condition, reads it again for the modulo while it advances the     *)
(* shared cursor, and then reads the element.                              *)

\* Emit enters roundRobin with i = 0
Enter(c, max) ==
    /\ callers[c].pc = "idle"
    /\ deliveryMode = RoundRobin
    /\ emitted < max
    /\ emitted' = emitted + 1
    /\ callers' = [callers EXCEPT ![c] =
           [Resting EXCEPT !.pc = "loop", !.data = emitted + 1]]
    /\ last' = Done("Enter", <<>>, "ok", "none", 0)
    /\ UNCHANGED <<endPoints, workers, roundRobinIndex, deliveryMode,
                   returnChannel, now, consumer, options, hist>>

\* the loop condition i < len(c.endPoints); when it is false roundRobin
\* returns the error
Check(c) ==
    /\ callers[c].pc = "loop"
    /\ IF callers[c].i < Len(endPoints)
       THEN /\ callers' = [callers EXCEPT ![c].pc = "index", ![c].eps = endPoints]
            /\ last' = Done("Check", <<>>, "ok", "none", 0)
       ELSE /\ callers' = [callers EXCEPT ![c].pc = "idle", ![c].res = "error"]
            /\ last' = Done("Emit", <<>>, "nil", "error", 0)
    /\ UNCHANGED <<endPoints, workers, roundRobinIndex, deliveryMode,
                   returnChannel, now, emitted, consumer, options, hist>>

\* index := int(c.roundRobinIndex.Add(1)-1) % len(c.endPoints); the division
\* panics when the length is 0
Index(c) ==
    /\ callers[c].pc = "index"
    /\ roundRobinIndex' = Add32(roundRobinIndex)
    /\ IF Len(endPoints) = 0
       THEN /\ callers' = [callers EXCEPT ![c].pc = "idle", ![c].res = "panic"]
            /\ last' = Done("Emit", <<>>, "panic", "panic", 0)
       ELSE /\ callers' = [callers EXCEPT
                   ![c].pc = "read",
                   ![c].index = GoRem(roundRobinIndex, Len(endPoints))]
            /\ last' = Done("Index", <<>>, "ok", "none", 0)
    /\ UNCHANGED <<endPoints, workers, deliveryMode, returnChannel, now,
                   emitted, consumer, options, hist>>

\* worker := c.endPoints[index], which panics when the index is out of range;
\* then the availability check, and the send to the queue (blocking while the
\* queue is full) or the next iteration
Read(c) ==
    LET index == callers[c].index
    IN /\ callers[c].pc = "read"
       /\ IF index < 0 \/ index >= Len(endPoints)
          THEN /\ callers' = [callers EXCEPT ![c].pc = "idle", ![c].res = "panic"]
               /\ last' = Done("Emit", <<>>, "panic", "panic", 0)
               /\ UNCHANGED workers
          ELSE LET worker == endPoints[index + 1]
               IN IF ~Available(workers[worker])
                  THEN /\ callers' = [callers EXCEPT
                              ![c].pc = "loop",
                              ![c].i = @ + 1,
                              ![c].seen = @ \cup {index}]
                       /\ last' = Done("Skip", <<>>, "ok", "none", worker)
                       /\ UNCHANGED workers
                  ELSE /\ HasRoom(workers[worker])
                       /\ workers' = [workers EXCEPT ![worker].messageQueue =
                                          Append(@, callers[c].data)]
                       /\ callers' = [callers EXCEPT
                              ![c].pc = "idle",
                              ![c].res = "ok",
                              ![c].seen = @ \cup {index}]
                       /\ last' = Done("Emit", <<>>, "nil", "ok", worker)
       /\ UNCHANGED <<endPoints, roundRobinIndex, deliveryMode, returnChannel,
                      now, emitted, consumer, options, hist>>

----------------------------------------------------------------------------
(* Two goroutines calling Emit on a dispatcher of two endpoints that are   *)
(* not changed, while the workers take the messages and fail them.  The    *)
(* return channel has room for every envelope of the calls made, so the    *)
(* consumer is left out.                                                   *)

InitConcurrent == New([EndPoints |-> <<"a", "b">>, DeliveryMode |-> RoundRobin])

EnterConcurrent == \E c \in Callers : Enter(c, MaxCalls)

CallerCheck == \E c \in Callers : Check(c)

CallerIndex == \E c \in Callers : Index(c)

CallerRead == \E c \in Callers : Read(c)

NextConcurrent ==
    \/ EnterConcurrent
    \/ CallerCheck
    \/ CallerIndex
    \/ CallerRead
    \/ HandlerReceive
    \/ HandlerFailure
    \/ HandlerSend

SpecConcurrent == InitConcurrent /\ [][NextConcurrent]_vars

----------------------------------------------------------------------------
(* A goroutine calling Emit again and again on a dispatcher of one         *)
(* endpoint whose worker takes a message and is then held by a transport   *)
(* call that has not returned yet, so that the queue fills up.             *)

InitQueue == New([EndPoints |-> <<"a">>, DeliveryMode |-> RoundRobin])

EnterQueue == Enter("A", MaxQueueCalls)

NextQueue ==
    \/ EnterQueue
    \/ CallerCheck
    \/ CallerIndex
    \/ CallerRead
    \/ HandlerReceive

SpecQueue == InitQueue /\ [][NextQueue]_vars

----------------------------------------------------------------------------
(* Dispatchers of either delivery mode and of any endpoints, a caller      *)
(* emitting and the workers failing what they are given.  (In broadcast    *)
(* mode no worker is ever given anything, so none is ever blocked.)        *)

EmitModes == EmitUpTo(MaxModeEmits)

NextModes ==
    \/ EmitModes
    \/ HandlerReceive
    \/ HandlerFailure
    \/ HandlerSend
    \/ CallbackHandler

SpecModes == Init /\ [][NextModes]_vars

----------------------------------------------------------------------------
(* Goroutines calling Emit while others add, delete and synchronise        *)
(* endpoints.                                                              *)

InitRace ==
    \E hosts \in {<<>>, <<"a">>} :
        New([EndPoints |-> hosts, DeliveryMode |-> RoundRobin])

EnterRace == \E c \in Callers : Enter(c, MaxRaceCalls)

NextRace ==
    \/ EnterRace
    \/ CallerCheck
    \/ CallerIndex
    \/ CallerRead
    \/ AddEndpointCall
    \/ DeleteEndpointCall
    \/ SyncEndPointCall

SpecRace == InitRace /\ [][NextRace]_vars

----------------------------------------------------------------------------
(* Claims about Emit's result and about the endpoint sequence *)

\* every worker of the sequence has its blockedUntil deadline in the future
AllBlocked ==
    \A i \in 1..Len(endPoints) : Before(now, workers[endPoints[i]].blockedUntil)

\* C1: in round-robin mode Emit returns the "all endpoints unavailable" error
\* exactly when every registered worker's blockedUntil is in the future or the
\* endpoint set is empty, and nil otherwise.
C1_EmitErrorIffAllBlocked ==
    [][(last'.op = "Emit" /\ deliveryMode = RoundRobin)
          => ((last'.res = "error") <=> AllBlocked)]_vars

\* C2: DeleteEndpoint(id) for an id that has a worker returns normally, closes
\* that worker's stop channel and leaves the sequence without it, the other
\* workers in their previous order; for an id without a worker the sequence is
\* unchanged.
C2_DeleteEndpointRemoves ==
    [][last'.op = "DeleteEndpoint"
          => LET index == findWorkerIndex(endPoints, workers, last'.hosts[1])
             IN IF index = -1
                THEN endPoints' = endPoints
                ELSE /\ last'.res = "ok"
                     /\ workers'[endPoints[index + 1]].stop = "closed"
                     /\ endPoints' = RemoveAt(endPoints, index + 1)]_vars

\* the hosts of a list that have no worker in eps, each once, in the order of
\* their first appearance
RECURSIVE MissingHosts(_, _, _)
MissingHosts(present, hosts, j) ==
    IF j > Len(hosts) THEN <<>>
    ELSE IF hosts[j] \in present
         THEN MissingHosts(present, hosts, j + 1)
         ELSE <<hosts[j]>> \o MissingHosts(present \cup {hosts[j]}, hosts, j + 1)

\* C3: after SyncEndPoint(ids) the identifiers of the sequence are exactly those
\* of ids: the workers whose identifier is in ids are kept in their previous
\* order, the others are gone, and the identifiers that had no worker follow
\* in the order of ids.
C3_SyncEndPointReconciles ==
    [][last'.op = "SyncEndPoint"
          => LET ids == {last'.hosts[k] : k \in 1..Len(last'.hosts)}
                 kept == SelectSeq(endPoints, LAMBDA w : workers[w].point \in ids)
                 had == {workers[endPoints[i]].point : i \in 1..Len(endPoints)}
             IN /\ last'.res = "ok"
                /\ SubSeq(endPoints', 1, Len(kept)) = kept
                /\ Points(endPoints', workers') =
                       Points(kept, workers) \o MissingHosts(had, last'.hosts, 1)]_vars

\* C4: a SyncEndPoint that repeats the SyncEndPoint just before it, with the
\* same list, leaves the sequence and every worker as they are: no worker is
\* built, none is closed, no queue and no breaker state changes.
C4_SyncEndPointIdempotent ==
    [][(last'.op = "SyncEndPoint" /\ last'.again)
          => (endPoints' = endPoints /\ workers' = workers)]_vars

\* a repeated SyncEndPoint has returned, its list naming one host twice, with
\* a message waiting in a queue of the sequence
C4_Witness ==
    /\ last.op = "SyncEndPoint" /\ last.again /\ last.res = "ok"
    /\ Len(last.hosts) = 2 /\ last.hosts[1] = last.hosts[2]
    /\ \E i \in 1..Len(endPoints) : workers[endPoints[i]].messageQueue # <<>>

\* no two workers of the sequence have the same endpoint identifier
UniquePoints ==
    \A i, j \in 1..Len(endPoints) :
        workers[endPoints[i]].point = workers[endPoints[j]].point => i = j

\* C5: whatever AddEndpoint, DeleteEndpoint and SyncEndPoint calls were made,
\* no two workers of the sequence have the same identifier; and AddEndpoint for
\* an identifier that has a worker changes neither the sequence nor the set of
\* workers built.
C5_UniqueEndpoints ==
    /\ []UniquePoints
    /\ [][(last'.op = "AddEndpoint"
             /\ findWorkerIndex(endPoints, workers, last'.hosts[1]) # -1)
            => (endPoints' = endPoints /\ workers' = workers)]_vars

\* AddEndpoint was called twice in a row for the same host, the second call
\* finding the worker the first one left, in a sequence of two workers or more
C5_Witness ==
    /\ last.op = "AddEndpoint" /\ last.again
    /\ Len(endPoints) >= 2

----------------------------------------------------------------------------
(* Claims about the router *)

\* the position of the sequence (from 1) that a cursor value stands for
Position(cursor) == (cursor % Len(endPoints)) + 1

AllAvailable == \A i \in 1..Len(endPoints) : Available(workers[endPoints[i]])

NoneAvailable == \A i \in 1..Len(endPoints) : ~Available(workers[endPoints[i]])

\* the first available worker in cyclic order from the cursor's position
FirstAvailable ==
    LET n == Len(endPoints)
        at(k) == endPoints[((Position(roundRobinIndex) - 1 + k) % n) + 1]
        k0 == CHOOSE k \in 0..(n - 1) :
                  /\ Available(workers[at(k)])
                  /\ \A j \in 0..(k - 1) : ~Available(workers[at(j)])
    IN at(k0)

\* the payload of this Emit appended to the queue of worker w, nothing else
\* changed in any worker
EnqueuedOn(w) ==
    workers' = [workers EXCEPT ![w].messageQueue = Append(@, emitted + 1)]

\* C6: with L >= 1 endpoints, all available, every Emit puts its payload on
\* the worker at the cursor's position modulo L and leaves the cursor at the
\* next position, so that the k-th Emit reaches position (c0 + k) mod L.
C6_RoundRobinOrder ==
    [][(last'.op = "Emit" /\ deliveryMode = RoundRobin
          /\ Len(endPoints) >= 1 /\ AllAvailable)
         => /\ last'.rr = "ok"
            /\ last'.target = endPoints[Position(roundRobinIndex)]
            /\ EnqueuedOn(endPoints[Position(roundRobinIndex)])
            /\ Position(roundRobinIndex') =
                   (Position(roundRobinIndex) % Len(endPoints)) + 1]_vars

\* C7: a roundRobin call over N workers of which at least one is available
\* returns nil and puts the payload on exactly one worker, the first available
\* one in cyclic order from position cursor mod N; no other queue changes.
C7_SelectFirstAvailable ==
    [][(last'.op = "Emit" /\ deliveryMode = RoundRobin
          /\ Len(endPoints) >= 1 /\ ~NoneAvailable)
         => /\ last'.rr = "ok"
            /\ last'.target = FirstAvailable
            /\ EnqueuedOn(FirstAvailable)]_vars

\* C8: a roundRobin call over N workers that are all blocked, or over no
\* worker, returns the "all endpoints are blocked" error and leaves every
\* worker's queue as it was.
C8_SelectFailureLeavesQueues ==
    [][(last'.op = "Emit" /\ deliveryMode = RoundRobin /\ NoneAvailable)
         => /\ last'.rr = "error"
            /\ \A w \in 1..Len(workers) :
                   workers'[w].messageQueue = workers[w].messageQueue]_vars

----------------------------------------------------------------------------
(* Claims about the breaker *)

\* C9 as first stated: the failure that makes retryLimit+1 failures inside one
\* retryWindow, with no success in between, sets blockedUntil to now plus
\* retryTimeout.
C9_TripSetsDeadline ==
    [][last'.op = "Failure"
          => LET after == workers'[last'.target]
             IN Len(after.errorTimestamps) = retryLimit + 1
                    => after.blockedUntil = now + retryTimeout]_vars

\* C9, amended: a failure recorded at a time t after the worker's blockedUntil
\* that leaves more than retryLimit failures in the window sets blockedUntil to
\* t + retryTimeout; a failure recorded at or before blockedUntil, or leaving
\* at most retryLimit failures, does not move it; nothing but a failure or a
\* success changes it; the router gives a message to no worker whose
\* blockedUntil is not before now, and reports all endpoints unavailable
\* only when no worker's blockedUntil is before now.
C9_BreakerBlocksUntilDeadline ==
    [][/\ last'.op = "Failure"
          => LET before == workers[last'.target]
                 after == workers'[last'.target]
             IN /\ (Len(after.errorTimestamps) > retryLimit
                      /\ After(now, before.blockedUntil))
                       => after.blockedUntil = now + retryTimeout
                /\ (Len(after.errorTimestamps) <= retryLimit
                      \/ ~After(now, before.blockedUntil))
                       => after.blockedUntil = before.blockedUntil
       /\ last'.op \notin {"Failure", "Success"}
          => \A w \in 1..Len(workers) :
                 workers'[w].blockedUntil = workers[w].blockedUntil
       /\ (last'.op = "Emit" /\ deliveryMode = RoundRobin)
          => /\ \A w \in 1..Len(workers) :
                    workers'[w].messageQueue # workers[w].messageQueue
                        => now > workers[w].blockedUntil
             /\ last'.rr = "ok"
                    => /\ now > workers[last'.target].blockedUntil
                       /\ EnqueuedOn(last'.target)
             /\ last'.rr = "error"
                    => \A i \in 1..Len(endPoints) :
                           now <= workers[endPoints[i]].blockedUntil]_vars

\* a worker that was blocked is past its deadline, with no success since, and
\* the router has just given it a message
C9_Witness ==
    /\ last.op = "Emit" /\ last.rr = "ok"
    /\ workers[last.target].blockedUntil = 1 + retryTimeout
    /\ now > workers[last.target].blockedUntil
    /\ Len(workers[last.target].messageQueue) = 1

\* C10: right after a worker has processed a message successfully its failure
\* window is empty, its blockedUntil is the zero time and the availability
\* check holds of it.
C10_SuccessClearsBreaker ==
    last.op = "Success"
        => /\ workers[last.target].errorTimestamps = <<>>
           /\ workers[last.target].blockedUntil = ZeroTime
           /\ Available(workers[last.target])

\* the only worker has failed retryLimit+1 messages at the first instant, which
\* blocked it, and has now answered the next one at that same instant
C10_Witness ==
    /\ last.op = "Success" /\ now = 1
    /\ Len(workers) = 1 /\ emitted = retryLimit + 2
    /\ workers[1].out = "response"
    /\ Len(returnChannel) = retryLimit + 1
    /\ \A i \in 1..Len(returnChannel) : returnChannel[i].Error = "error"

----------------------------------------------------------------------------
(* Claims about failures that come far apart *)

\* C11: as long as every failure of a worker is recorded more than retryWindow
\* after the previous one, the failure window holds exactly the one timestamp
\* just recorded after each recording (and never more than one), and, the
\* limit being at least 1, blockedUntil keeps its zero value, however many
\* failures there have been.
C11_SpacedFailuresNeverBlock ==
    hist.spaced
        => /\ Len(workers[1].errorTimestamps) <= 1
           /\ last.op = "Inc" => workers[1].errorTimestamps = <<now>>
           /\ retryLimit >= 1 => workers[1].blockedUntil = ZeroTime

\* three failures, each more than retryWindow after the one before
C11_Witness ==
    /\ hist.spaced
    /\ hist.failures >= 3
    /\ last.op = "Inc"

----------------------------------------------------------------------------
(* Claims about a worker whose transport call panics *)

\* the payloads Emit can enqueue
Payloads == 1..MaxLiveEmits

\* message m waits in the queue of worker w
Queued(w, m) ==
    /\ w <= Len(workers)
    /\ \E i \in 1..Len(workers[w].messageQueue) : workers[w].messageQueue[i] = m

\* worker w has dequeued message m and is making the transport call for it
Processing(w, m) ==
    /\ w <= Len(workers)
    /\ workers[w].pc = "request"
    /\ workers[w].data = m

\* C12: a panic of the transport call leaves the worker's queue as it was and
\* loses only the message in hand; with the return channel drained and every
\* transport call ending, each message that waits in the queue while the
\* worker recovers from the panic, and each message that is in the queue at
\* any later time, is eventually dequeued and processed.
C12_QueueSurvivesPanic ==
    /\ [][last'.op = "Panic"
             => LET before == workers[last'.target]
                    after == workers'[last'.target]
                IN /\ after.messageQueue = before.messageQueue
                   /\ after.data # before.data
                   /\ \A i \in 1..Len(after.messageQueue) :
                          after.messageQueue[i] # before.data]_vars
    /\ \A w \in 1..2 : \A m \in Payloads :
           Queued(w, m) ~> Processing(w, m)

\* a worker that has panicked on message 1 with message 2 waiting is
\* processing message 2
C12_Witness ==
    /\ \E i \in 1..Len(returnChannel) : returnChannel[i].Error = "panic"
    /\ Len(workers) = 1
    /\ Processing(1, 2)

----------------------------------------------------------------------------
(* Claims about the consumer of the return channel and the callback *)

\* C13: whatever callback is installed, a panic it raises does not end the
\* process: the consumer recovers, is calling the callback with a critical
\* failure envelope whose endpoint identifier is empty, and goes on to
\* restart the loop.
C13_CallbackFaultRecovered ==
    /\ Alive
    /\ consumer.pc = "recover"
           => /\ consumer.data.Point = ""
              /\ ~consumer.data.Success
              /\ consumer.data.Error # "nil"

\* the envelopes worker w has put on the return channel, as history entries
SunkBy(w) == SelectSeq(hist.sunk, LAMBDA e : e[1] = w)

\* the messages worker w has dequeued, as history entries
DequeuedBy(w) == SelectSeq(hist.dequeued, LAMBDA e : e[1] = w)

\* C14: the envelopes of one worker are put on the return channel in the
\* order in which their messages were enqueued to it (payloads are numbered in
\* the order of the Emit calls), also when the handler was restarted after a
\* panic in between.
C14_EnvelopesInEnqueueOrder ==
    \A w \in 1..Len(workers) :
        \A i, j \in 1..Len(SunkBy(w)) :
            i < j => SunkBy(w)[i][2] < SunkBy(w)[j][2]

\* a worker has sent a panic envelope and, restarted, a later envelope
C14_Witness ==
    \E w \in 1..Len(workers) :
        \E i, j \in 1..Len(SunkBy(w)) :
            i < j /\ SunkBy(w)[i][3] = "panic" /\ SunkBy(w)[j][3] # "panic"

\* every message worker w has dequeued has exactly one envelope, the message
\* in hand excepted until its envelope is sent
OneEnvelopeEach(w) ==
    LET busy == workers[w].pc \in {"request", "send"}
        done == Len(DequeuedBy(w)) - (IF busy THEN 1 ELSE 0)
    IN /\ Len(SunkBy(w)) = done
       /\ \A i \in 1..done : SunkBy(w)[i][2] = DequeuedBy(w)[i][2]

\* the number of times envelope n was passed to the callback by the loop
Passed(n) == Cardinality({i \in 1..Len(hist.calls) : hist.calls[i] = n})

\* C15 as stated: every dequeued message yields exactly one envelope, and
\* every envelope that has left the return channel was passed to the callback
\* exactly once.
C15_ExactlyOnce ==
    /\ \A w \in 1..Len(workers) : OneEnvelopeEach(w)
    /\ \A n \in 1..hist.taken : Passed(n) = 1

\* C15 amended: every dequeued message yields exactly one envelope; an envelope
\* the consumer takes while a callback is installed is passed to it exactly
\* once, and one taken while Callback.callback is nil is passed to no one.
C15_ExactlyOnceWhenInstalled ==
    /\ \A w \in 1..Len(workers) : OneEnvelopeEach(w)
    /\ \A n \in 1..hist.taken :
           Passed(n) = IF n \in hist.dropped THEN 0 ELSE 1
    /\ consumer.callback # "nil" /\ last.op = "Take"
           => hist.calls[Len(hist.calls)] = hist.taken

\* a success, a failure and a panic envelope were all passed to the callback
C15_Witness ==
    /\ Len(hist.sunk) = 3
    /\ {hist.sunk[i][3] : i \in 1..3} = {"response", "error", "panic"}
    /\ hist.calls = <<1, 2, 3>>

\* exactly one of response and error is set, and success tells which
WellFormed(data) ==
    /\ (data.Response = "nil") # (data.Error = "nil")
    /\ data.Success <=> data.Response # "nil"

\* C16: every envelope on the return channel and every envelope the callback
\* is called with (from the loop or, the global panic envelope, from the
\* deferred function) has exactly one of response and error, and success is
\* true exactly when it is the response.
C16_EnvelopeWellFormed ==
    /\ \A i \in 1..Len(returnChannel) : WellFormed(returnChannel[i])
    /\ consumer.pc \in {"call", "recover"} => WellFormed(consumer.data)

\* the callback, having been called with a worker's panic envelope, is called
\* with the global panic envelope
C16_Witness ==
    /\ consumer.pc = "recover"
    /\ consumer.data = GlobalPanic
    /\ hist.taken >= 1
    /\ hist.sunk[hist.taken][3] = "panic"

\* C20: a worker never has more than one goroutine inside its handler loop:
\* there is one while it waits, calls the transport or sends a result, none
\* while the deferred function holds the panic envelope, and the new one is
\* started only then; no message is dequeued twice.
C20_OneLoopPerWorker ==
    /\ \A w \in 1..Len(workers) :
           /\ workers[w].loops <= 1
           /\ workers[w].loops = IF workers[w].out = "panic" THEN 0 ELSE 1
    /\ \A i, j \in 1..Len(hist.dequeued) :
           i # j => hist.dequeued[i][2] # hist.dequeued[j][2]

\* a worker that was restarted after a panic has dequeued the next message
C20_Witness ==
    \E w \in 1..Len(workers) :
        /\ \E i \in 1..Len(SunkBy(w)) : SunkBy(w)[i][3] = "panic"
        /\ workers[w].pc = "request"
        /\ workers[w].loops = 1

----------------------------------------------------------------------------
(* Claims about the defaults of the configuration *)

\* the value a field must have after defaulting: the default when the field
\* was not set, what was given otherwise
Defaulted(given, zero, default) == IF given = zero THEN default ELSE given

\* C17: after defaultOptions every field that was unset holds its default
\* (REST, round-robin, next, 5, 5s, 3s), every field that was set and the
\* endpoint list are as given, and applying defaultOptions again changes
\* nothing.
C17_DefaultOptions ==
    /\ [](hist.applied >= 1
            => /\ options.Transport = Defaulted(hist.input.Transport, "", "REST")
               /\ options.DeliveryMode =
                      Defaulted(hist.input.DeliveryMode, "", "round_robin")
               /\ options.RetryMode = Defaulted(hist.input.RetryMode, "", "next")
               /\ options.RetryLimit = Defaulted(hist.input.RetryLimit, 0, 5)
               /\ options.RetryTimeout = Defaulted(hist.input.RetryTimeout, 0, 5)
               /\ options.RetryWindow = Defaulted(hist.input.RetryWindow, 0, 3)
               /\ options.EndPoints = hist.input.EndPoints)
    /\ [][hist.applied >= 1 => options' = options]_vars

\* defaultOptions has been applied twice to a value with some fields unset
\* and some set to other values than the defaults
C17_Witness ==
    /\ hist.applied = 2
    /\ hist.input.Transport = "QUIC"
    /\ hist.input.RetryLimit = 0
    /\ hist.input.RetryWindow = 1
    /\ hist.input.EndPoints = <<"b", "a">>
    /\ options.RetryLimit = 5

----------------------------------------------------------------------------
(* Claims about roundRobin run by several goroutines *)

\* C18: no mutation of the endpoint sequence happens between a roundRobin
\* call's reads of it: while the call is between reading the length in the loop
\* condition and reading the element, the sequence is the one whose length it
\* read, so the index it computes is within the sequence it indexes.
C18_SelectReadsOneVersion ==
    \A c \in Callers :
        callers[c].pc \in {"index", "read"} => callers[c].eps = endPoints

\* C19: with the sequence fixed, a roundRobin call that returns the error has
\* examined every position of the sequence, each of them once, also when
\* another goroutine runs roundRobin at the same time.
C19_ErrorOnlyWhenAllExamined ==
    \A c \in Callers :
        callers[c].res = "error"
            => callers[c].seen = {p - 1 : p \in 1..Len(endPoints)}

----------------------------------------------------------------------------
(* Claims about a worker whose endpoint is taken out *)

\* the call just made asks for the endpoint `point` to be taken out:
\* DeleteEndpoint(point), or SyncEndPoint with a list that lacks it
TakenOut(point) ==
    \/ last.op = "DeleteEndpoint" /\ last.hosts = <<point>>
    \/ /\ last.op = "SyncEndPoint"
       /\ \A i \in 1..Len(last.hosts) : last.hosts[i] # point

\* C21: once DeleteEndpoint or SyncEndPoint has been called to take a worker's
\* endpoint out, that worker's handler takes no further message from its
\* queue, so nothing that was queued is passed to the transport.
C21_ClosedWorkerTakesNothing ==
    [][last'.op = "Receive" => ~TakenOut(workers[last'.target].point)]_vars

----------------------------------------------------------------------------
(* Claims about what Inc returns and what it leaves in the failure window *)

\* C22: Inc returns true exactly when the router's availability check, made at
\* the same instant, finds the worker unavailable.
C22_IncReturnsUnavailable ==
    last.op = "Inc" => (last.res = "true" <=> ~Available(workers[1]))

\* the number of Inc calls made after now - retryWindow
RecentFailures ==
    Cardinality({k \in 1..Len(hist.times) : After(hist.times[k], now - retryWindow)})

\* C23: right after Inc at time now, every timestamp of the failure window is
\* after now - retryWindow, the last one is now, the timestamps are in
\* non-decreasing order, and there are no more of them than Inc calls made
\* after now - retryWindow.
C23_WindowAfterInc ==
    last.op = "Inc"
        => LET stamps == workers[1].errorTimestamps
           IN /\ \A i \in 1..Len(stamps) : After(stamps[i], now - retryWindow)
              /\ stamps # <<>>
              /\ stamps[Len(stamps)] = now
              /\ \A i, j \in 1..Len(stamps) : i < j => stamps[i] <= stamps[j]
              /\ Len(stamps) <= RecentFailures

\* Inc has dropped an old timestamp and holds two recent ones
C23_Witness ==
    /\ last.op = "Inc"
    /\ Len(workers[1].errorTimestamps) = 2
    /\ \E k \in 1..Len(hist.times) : ~After(hist.times[k], now - retryWindow)

----------------------------------------------------------------------------
(* Claims about the order of the callback's invocations *)

\* C24: the callback is called with the envelopes in the order they were put
\* on the return channel, one at a time: at most one goroutine is inside the
\* range loop of Callback.handler, exactly one while the consumer waits or is
\* inside a call from the loop and none while the deferred function runs, and
\* the one envelope the callback holds is the latest taken, every earlier
\* call having ended.
C24_OneAtATimeInOrder ==
    /\ consumer.loops <= 1
    /\ consumer.loops = IF consumer.pc \in {"receive", "call"} THEN 1 ELSE 0
    /\ \A i, j \in 1..Len(hist.calls) : i < j => hist.calls[i] < hist.calls[j]
    /\ consumer.pc = "call"
           => /\ hist.calls # <<>>
              /\ hist.calls[Len(hist.calls)] = hist.taken
              /\ consumer.data = sendReturn(workers[hist.sunk[hist.taken][1]],
                                            hist.sunk[hist.taken][3])

\* after a fault of the callback and the restart of the loop the callback is
\* called with a later envelope
C24_Witness ==
    /\ consumer.pc = "call"
    /\ consumer.callback = "picky"
    /\ Len(hist.calls) >= 2
    /\ hist.sunk[hist.calls[1]][3] = "response"

----------------------------------------------------------------------------
(* Claims about the capacity of a worker's queue *)

\* the worker at the position goroutine c has computed
Selected(c) == workers[endPoints[callers[c].index + 1]]

----------------------------------------------------------------------------
(* Claims about the cursor *)

\* C26: with at least one worker, the position roundRobin computes from the
\* cursor, int(cursor) % len(c.endPoints), is one of 0..N-1, whatever value
\* the 32-bit cursor has reached.
C26_PositionInRange ==
    Len(endPoints) >= 1
        => LET index == GoRem(roundRobinIndex, Len(endPoints))
           IN 0 <= index /\ index < Len(endPoints)

----------------------------------------------------------------------------
(* Claims about the broadcast mode *)

====
